---- MODULE Spec2Model ----
(***************************************************************************)
(* A model of src/src/main.c: the one-shot SHA-256 function                *)
(*     uint8_t *sha256( const uint8_t *data, size_t len )                  *)
(* and a caller that invokes it a number of times and keeps what each call *)
(* returned.                                                               *)
(*                                                                         *)
(* Representation.  TLC's integers are 32-bit signed, so a uint32_t is     *)
(* kept as the pair <<hi, lo>> of its 16-bit halves and a 64-bit quantity  *)
(* (size_t len, uint64_t bitlen) as four 16-bit limbs, least significant   *)
(* first.  Arithmetic on them is arithmetic modulo 2^32 and 2^64.  The     *)
(* loop counters i, N, data_pos and msgblk_len are size_t as well; the     *)
(* specifications that run the block loop bound len far below 2^31, where  *)
(* none of them can wrap, and keep them as naturals.                       *)
(*                                                                         *)
(* Memory layout.  memcpy between byte buffers and uint32_t arrays depends *)
(* on the host's byte order.  The source assumes a little-endian host (the *)
(* comment at lines 257-259); so does the model (ByteLE, WordLE).          *)
(***************************************************************************)
EXTENDS Integers, Sequences, FiniteSets, TLC

(***************************************************************************)
(* Bounds of the model.                                                    *)
(***************************************************************************)
\* Spec: the caller makes at most MaxCalls calls.
MaxCalls == 3
\* SpecKAT: the caller hashes pattern messages of every length 0..MaxLen.
MaxLen == 130

(***************************************************************************)
(* uint32_t arithmetic on <<hi, lo>>.                                      *)
(***************************************************************************)
Half == 0..65535

Pow2(n) == 2 ^ n

RECURSIVE AndBits(_, _, _)
AndBits(x, y, n) ==
  IF n = 0 THEN 0
  ELSE (x % 2) * (y % 2) + 2 * AndBits(x \div 2, y \div 2, n - 1)

RECURSIVE XorBits(_, _, _)
XorBits(x, y, n) ==
  IF n = 0 THEN 0
  ELSE ((x + y) % 2) + 2 * XorBits(x \div 2, y \div 2, n - 1)

\* x & y
AND(x, y) == <<AndBits(x[1], y[1], 16), AndBits(x[2], y[2], 16)>>
\* x ^ y
XOR(x, y) == <<XorBits(x[1], y[1], 16), XorBits(x[2], y[2], 16)>>
\* x | y
OR(x, y) == LET m == AND(x, y) IN <<x[1] + y[1] - m[1], x[2] + y[2] - m[2]>>
\* ~x
NOT(x) == <<65535 - x[1], 65535 - x[2]>>
\* x >> n, 0 < n < 32
SHR(x, n) ==
  IF n < 16
    THEN <<x[1] \div Pow2(n),
           (x[2] \div Pow2(n)) + (x[1] % Pow2(n)) * Pow2(16 - n)>>
    ELSE <<0, x[1] \div Pow2(n - 16)>>
\* x << n, 0 < n < 32, the bits shifted out of the 32-bit word are lost
SHL(x, n) ==
  IF n < 16
    THEN <<((x[1] * Pow2(n)) % 65536) + (x[2] \div Pow2(16 - n)),
           (x[2] * Pow2(n)) % 65536>>
    ELSE <<(x[2] * Pow2(n - 16)) % 65536, 0>>

\* A plausible bug: the sum is promoted to a wider type and never reduced.
ADD_promoted(x, y) ==
  LET lo == x[2] + y[2] IN <<x[1] + y[1] + lo \div 65536, lo % 65536>>
\* x + y on uint32_t: the sum modulo 2^32
ADD(x, y) ==
  LET lo == x[2] + y[2] IN <<(x[1] + y[1] + lo \div 65536) % 65536, lo % 65536>>

(***************************************************************************)
(* The macros of main.c, lines 50-93.                                      *)
(***************************************************************************)
CH(x, y, z) == XOR(AND(x, y), AND(NOT(x), z))
MAJ(x, y, z) == XOR(XOR(AND(x, y), AND(x, z)), AND(y, z))
ROTR(x, n) == OR(SHR(x, n), SHL(x, 32 - n))
ROTL(x, n) == OR(SHL(x, n), SHR(x, 32 - n))
e0(x) == XOR(XOR(ROTR(x, 2), ROTR(x, 13)), ROTR(x, 22))
e1(x) == XOR(XOR(ROTR(x, 6), ROTR(x, 11)), ROTR(x, 25))
s0(x) == XOR(XOR(ROTR(x, 7), ROTR(x, 18)), SHR(x, 3))
s1(x) == XOR(XOR(ROTR(x, 17), ROTR(x, 19)), SHR(x, 10))
\* 0xff00ff00 and 0x00ff00ffL
MaskHi == <<65280, 65280>>
MaskLo == <<255, 255>>
\* A plausible bug: the conversion to big endian is left out.
BYTESWAP_none(x) == x
BYTESWAP(x) == OR(AND(ROTR(x, 8), MaskHi), AND(ROTL(x, 8), MaskLo))
MIN(x, y) == IF x < y THEN x ELSE y

(***************************************************************************)
(* The round constants K (lines 117-126) and the initial hash value        *)
(* (lines 136-145).                                                        *)
(***************************************************************************)
K ==
  << <<17034, 12184>>, <<28983, 17553>>, <<46528, 64463>>, <<59829, 56229>>,
     <<14678, 49755>>, <<23025, 4593>>, <<37439, 33444>>, <<43804, 24277>>,
     <<55303, 43672>>, <<4739, 23297>>, <<9265, 34238>>, <<21772, 32195>>,
     <<29374, 23924>>, <<32990, 45566>>, <<39900, 1703>>, <<49563, 61812>>,
     <<58523, 27073>>, <<61374, 18310>>, <<4033, 40390>>, <<9228, 41420>>,
     <<11753, 11375>>, <<19060, 33962>>, <<23728, 43484>>, <<30457, 35034>>,
     <<38974, 20818>>, <<43057, 50797>>, <<45059, 10184>>, <<48985, 32711>>,
     <<50912, 3059>>, <<54695, 37191>>, <<1738, 25425>>, <<5161, 10599>>,
     <<10167, 2693>>, <<11803, 8504>>, <<19756, 28156>>, <<21304, 3347>>,
     <<25866, 29524>>, <<30314, 2747>>, <<33218, 51502>>, <<37490, 11397>>,
     <<41663, 59553>>, <<43034, 26187>>, <<49739, 35696>>, <<51052, 20899>>,
     <<53650, 59417>>, <<54937, 1572>>, <<62478, 13701>>, <<4202, 41072>>,
     <<6564, 49430>>, <<7735, 27656>>, <<10056, 30540>>, <<13488, 48309>>,
     <<14620, 3251>>, <<20184, 43594>>, <<23452, 51791>>, <<26670, 28659>>,
     <<29839, 33518>>, <<30885, 25455>>, <<33992, 30740>>, <<36039, 520>>,
     <<37054, 65530>>, <<42064, 27883>>, <<48889, 41975>>, <<50801, 30962>> >>
H0 ==
  << <<27145, 58983>>, <<47975, 44677>>, <<15470, 62322>>, <<42319, 62778>>,
     <<20750, 21119>>, <<39685, 26764>>, <<8067, 55723>>, <<23520, 52505>> >>

(***************************************************************************)
(* Bytes in memory on the little-endian host.                              *)
(***************************************************************************)
\* Byte `lane` (0..3, in address order) of the uint32_t x.
ByteLE(x, lane) ==
  CASE lane = 0 -> x[2] % 256
    [] lane = 1 -> x[2] \div 256
    [] lane = 2 -> x[1] % 256
    [] lane = 3 -> x[1] \div 256
\* The uint32_t whose four bytes, in address order, are b0 b1 b2 b3.
WordLE(b0, b1, b2, b3) == <<b2 + 256 * b3, b0 + 256 * b1>>
\* uint32_t M[ 16 ] seen as 64 bytes, offsets 0..63.
BytesOfBlock(M) == [o \in 0..63 |-> ByteLE(M[(o \div 4) + 1], o % 4)]
BlockOfBytes(B) ==
  [w \in 1..16 |-> WordLE(B[4 * (w - 1)], B[4 * (w - 1) + 1],
                          B[4 * (w - 1) + 2], B[4 * (w - 1) + 3])]
\* uint32_t M[ 16 ] = { 0 }
ZeroBlock == [w \in 1..16 |-> <<0, 0>>]
\* memcpy( M, src, n ): the first n bytes of M become src[1..n].
MemcpyToBlock(M, src, n) ==
  BlockOfBytes([o \in 0..63 |-> IF o < n THEN src[o + 1] ELSE BytesOfBlock(M)[o]])
\* ( ( uint8_t * ) M )[ off ] = v, off inside the block
StoreByte(M, off, v) ==
  BlockOfBytes([o \in 0..63 |-> IF o = off THEN v ELSE BytesOfBlock(M)[o]])
\* memcpy( md, H, 32 ): the 32 bytes of uint32_t H[ 8 ] in address order.
BytesOfHash(Hs) == [k \in 1..32 |-> ByteLE(Hs[((k - 1) \div 4) + 1], (k - 1) % 4)]

(***************************************************************************)
(* 64-bit quantities: four 16-bit limbs, least significant first.          *)
(***************************************************************************)
\* The size_t with the value n, 0 <= n < 2^31.
SizeT(n) == <<n % 65536, n \div 65536, 0, 0>>
\* The value of a size_t below 2^31.
LenNat(l) == l[1] + 65536 * l[2]
\* A plausible bug: the length in bytes is written instead of the length in bits.
BitLen_bytes(l) == l
\* ( uint64_t ) len * 8: the product modulo 2^64
BitLen(l) ==
  LET p1 == 8 * l[1]
      p2 == 8 * l[2] + p1 \div 65536
      p3 == 8 * l[3] + p2 \div 65536
      p4 == 8 * l[4] + p3 \div 65536
  IN <<p1 % 65536, p2 % 65536, p3 % 65536, p4 % 65536>>
\* ( uint32_t ) bitlen and ( uint32_t )( bitlen >> 32 )
Lo32(q) == <<q[2], q[1]>>
Hi32(q) == <<q[4], q[3]>>

(***************************************************************************)
(* The block count, the copy length and the padding condition.             *)
(***************************************************************************)
\* A plausible bug: the extra block is added only above 56 bytes.
BlockCount_off(n) == (n \div 64) + 1 + (IF n % 64 > 56 THEN 1 ELSE 0)
\* size_t N = ( len / 64 ) + 1 + ( len % 64 >= 56 ? 1 : 0 )
BlockCount(n) == (n \div 64) + 1 + (IF n % 64 >= 56 THEN 1 ELSE 0)
\* A plausible bug: the copy takes a whole block whatever is left.
CopyLen_whole(n, pos) == 64
\* MIN( len - data_pos, 64 ); len - data_pos is unsigned and wraps to a
\* huge value when data_pos > len.
CopyLen(n, pos) == IF pos > n THEN 64 ELSE MIN(n - pos, 64)
\* A plausible bug: every block that is not full gets a marker.
PadHere_loose(n, cnt, idx, m) == m < 64
\* ( msgblk_len < 64 && msgblk_len != 0 ) || ( len % 64 == 0 && i == N )
PadHere(n, cnt, idx, m) == (m < 64 /\ m # 0) \/ (n % 64 = 0 /\ idx = cnt)

(***************************************************************************)
(* The inputs the callers of the model hash.                               *)
(***************************************************************************)
\* const size_t msg_len = 1000 in main
MsgLen == 1000
\* Byte k (from 0) of the pattern messages; byte 0 is 0x80 itself, so a data
\* byte cannot be taken for the padding marker by its value alone.
PatByte(k) == (37 * k + 128) % 256
Msg(n) == [k \in 1..n |-> PatByte(k - 1)]
\* "abc"
Abc == <<97, 98, 99>>
\* main: msg[ i ] = 'a' for i < msg_len
MainMsg == [k \in 1..MsgLen |-> 97]
\* SpecKAT: every length 0..MaxLen, "abc", and the message of main.
KATInputs == {Msg(n) : n \in 0..MaxLen} \cup {Abc, MainMsg}
\* Spec: a one-block message, the empty message and a two-block message.
CallInputs == {<<>>, Abc, Msg(56)}
\* SpecLen: values of size_t len around the point where len * 8 leaves 64 bits.
BigLens ==
  {<<l1, l2, l3, l4>> : l1 \in {0, 1, 64, 65535}, l2 \in {0, 1, 65535},
                        l3 \in {0, 65535}, l4 \in {0, 8191, 8192, 32768, 65535}}

(***************************************************************************)
(* The state.                                                              *)
(***************************************************************************)
VARIABLES
  pc,          \* where the program is: "idle" (in the caller) or a place in sha256
  data,        \* the bytes data points to; data[k + 1] is the C data[ k ]
  len,         \* size_t len, as limbs
  H,           \* uint32_t H[ 8 ]
  data_pos,    \* size_t data_pos
  N,           \* size_t N
  i,           \* the block loop's i
  M,           \* uint32_t M[ 16 ]
  W,           \* uint32_t W[ 64 ]: the words written so far
  wv,          \* the working variables a..h
  T1, T2,      \* uint32_t T1, T2
  msgblk_len,  \* size_t msgblk_len
  bitlen,      \* uint64_t bitlen, as limbs
  t,           \* the t of the schedule and round loops
  md,          \* static uint8_t md[ 32 ]
  held,        \* the caller: per finished call, its input, the pointer it got
               \* and the 32 bytes it read through that pointer on return
  blocks,      \* history of this call: M of each block as handed to the schedule
  marks,       \* history of this call: <<i, offset>> of each 0x80 written
  lenw         \* history of this call: the i of each block whose M[14], M[15]
               \* were overwritten with the length

vars ==
  <<pc, data, len, H, data_pos, N, i, M, W, wv, T1, T2, msgblk_len, bitlen, t,
    md, held, blocks, marks, lenw>>

locals == <<H, data_pos, N, i, M, W, wv, T1, T2, msgblk_len, bitlen, t>>
history == <<blocks, marks, lenw>>

ZeroWord == <<0, 0>>
\* a = H[ 0 ]; ... h = H[ 7 ]
Working(Hs) ==
  [a |-> Hs[1], b |-> Hs[2], c |-> Hs[3], d |-> Hs[4],
   e |-> Hs[5], f |-> Hs[6], g |-> Hs[7], h |-> Hs[8]]

\* A plausible bug: H declared static, so a call starts from what the last left.
InitHash_static == H
\* uint32_t H[] = { 0x6a09e667, ... } at every call
InitHash == H0

\* The pointer sha256 returns: always the one static buffer.
RetPtr == "md"
\* What a caller reads through a pointer it holds.
Deref(p) == IF p = "md" THEN md ELSE <<>>

\* static storage is zero-initialized; the locals do not exist yet.
Fresh ==
  /\ data = <<>>
  /\ H = [j \in 1..8 |-> ZeroWord]
  /\ data_pos = 0
  /\ N = 0
  /\ i = 0
  /\ M = ZeroBlock
  /\ W = <<>>
  /\ wv = Working([j \in 1..8 |-> ZeroWord])
  /\ T1 = ZeroWord
  /\ T2 = ZeroWord
  /\ msgblk_len = 0
  /\ bitlen = SizeT(0)
  /\ t = 0
  /\ md = [k \in 1..32 |-> 0]
  /\ held = <<>>
  /\ blocks = <<>>
  /\ marks = <<>>
  /\ lenw = <<>>

Init ==
  /\ pc = "idle"
  /\ len = SizeT(0)
  /\ Fresh

(***************************************************************************)
(* sha256, lines 108-275.                                                  *)
(***************************************************************************)
\* Entry: H, data_pos, N are initialized and the loop starts with i = 1.
Enter(inp) ==
  /\ pc = "idle"
  /\ data' = inp
  /\ len' = SizeT(Len(inp))
  /\ H' = InitHash
  /\ data_pos' = 0
  /\ N' = BlockCount(Len(inp))
  /\ i' = 1
  /\ pc' = "loop"
  /\ blocks' = <<>>
  /\ marks' = <<>>
  /\ lenw' = <<>>
  /\ UNCHANGED <<M, W, wv, T1, T2, msgblk_len, bitlen, t, md, held>>

\* The caller of Spec: up to MaxCalls calls, each on any of CallInputs.
Call ==
  /\ Len(held) < MaxCalls
  /\ \E inp \in CallInputs : Enter(inp)

\* The caller of SpecKAT: one call, on any of KATInputs.
CallKAT ==
  /\ Len(held) < 1
  /\ \E inp \in KATInputs : Enter(inp)

\* i <= N: the body starts with M zeroed and W uninitialized.
BlockBegin ==
  /\ pc = "loop"
  /\ i <= N
  /\ M' = ZeroBlock
  /\ W' = <<>>
  /\ pc' = "copy"
  /\ UNCHANGED <<data, len, H, data_pos, N, i, wv, T1, T2, msgblk_len, bitlen, t,
                 md, held, history>>

\* i > N: the loop is left.
LoopExit ==
  /\ pc = "loop"
  /\ ~(i <= N)
  /\ pc' = "final"
  /\ UNCHANGED <<data, len, locals, md, held, history>>

\* Lines 182-184.  A copy that would read past data[ len - 1 ] is undefined.
Copy ==
  /\ pc = "copy"
  /\ LET n == CopyLen(LenNat(len), data_pos)
     IN /\ msgblk_len' = n
        /\ data_pos' = data_pos + n
        /\ IF data_pos + n > Len(data)
             THEN /\ pc' = "ub"
                  /\ M' = M
             ELSE /\ pc' = "pad"
                  /\ M' = IF n > 0
                            THEN MemcpyToBlock(M, SubSeq(data, data_pos + 1, data_pos + n), n)
                            ELSE M
  /\ UNCHANGED <<data, len, H, N, i, W, wv, T1, T2, bitlen, t, md, held, history>>

\* Lines 187-188.  A marker written at offset 64 is outside M: undefined.
Pad ==
  /\ pc = "pad"
  /\ IF PadHere(LenNat(len), N, i, msgblk_len)
       THEN /\ marks' = Append(marks, <<i, msgblk_len>>)
            /\ IF msgblk_len < 64
                 THEN /\ M' = StoreByte(M, msgblk_len, 128)
                      /\ pc' = "swap"
                 ELSE /\ M' = M
                      /\ pc' = "ub"
       ELSE /\ marks' = marks
            /\ M' = M
            /\ pc' = "swap"
  /\ UNCHANGED <<data, len, H, data_pos, N, i, W, wv, T1, T2, msgblk_len, bitlen, t,
                 md, held, blocks, lenw>>

\* Lines 191-192.
Swap ==
  /\ pc = "swap"
  /\ M' = [w \in 1..16 |-> BYTESWAP(M[w])]
  /\ pc' = "length"
  /\ UNCHANGED <<data, len, H, data_pos, N, i, W, wv, T1, T2, msgblk_len, bitlen, t,
                 md, held, history>>

\* Lines 195-200.
Length ==
  /\ pc = "length"
  /\ IF i = N
       THEN /\ bitlen' = BitLen(len)
            /\ M' = [M EXCEPT ![16] = Lo32(bitlen'), ![15] = Hi32(bitlen')]
            /\ lenw' = Append(lenw, i)
       ELSE /\ bitlen' = bitlen
            /\ M' = M
            /\ lenw' = lenw
  /\ blocks' = Append(blocks, M')
  /\ t' = 0
  /\ pc' = "sched_copy"
  /\ UNCHANGED <<data, len, H, data_pos, N, i, W, wv, T1, T2, msgblk_len, md, held,
                 marks>>

\* Line 208, one t at a time.
SchedCopy ==
  /\ pc = "sched_copy"
  /\ W' = Append(W, M[t + 1])
  /\ t' = t + 1
  /\ pc' = IF t + 1 < 16 THEN "sched_copy" ELSE "sched_expand"
  /\ UNCHANGED <<data, len, H, data_pos, N, i, M, wv, T1, T2, msgblk_len, bitlen,
                 md, held, history>>

\* W[ t ] of line 209; the C W[ k ] is W[k + 1] here.
ScheduleWord(Ws, tt) ==
  ADD(ADD(ADD(s1(Ws[tt - 1]), Ws[tt - 6]), s0(Ws[tt - 14])), Ws[tt - 15])

\* Line 209, one t at a time.
SchedExpand ==
  /\ pc = "sched_expand"
  /\ W' = Append(W, ScheduleWord(W, t))
  /\ t' = t + 1
  /\ pc' = IF t + 1 < 64 THEN "sched_expand" ELSE "init_working"
  /\ UNCHANGED <<data, len, H, data_pos, N, i, M, wv, T1, T2, msgblk_len, bitlen,
                 md, held, history>>

\* Lines 215-222.
InitWorking ==
  /\ pc = "init_working"
  /\ wv' = Working(H)
  /\ t' = 0
  /\ pc' = "round"
  /\ UNCHANGED <<data, len, H, data_pos, N, i, M, W, T1, T2, msgblk_len, bitlen,
                 md, held, history>>

\* Line 230 and line 231.
RoundT1(v, k, w) == ADD(ADD(ADD(ADD(v.h, e1(v.e)), CH(v.e, v.f, v.g)), k), w)
RoundT2(v) == ADD(e0(v.a), MAJ(v.a, v.b, v.c))

\* Lines 230-239: one round.
Round ==
  /\ pc = "round"
  /\ T1' = RoundT1(wv, K[t + 1], W[t + 1])
  /\ T2' = RoundT2(wv)
  /\ wv' = [a |-> ADD(T1', T2'), b |-> wv.a, c |-> wv.b, d |-> wv.c,
            e |-> ADD(wv.d, T1'), f |-> wv.e, g |-> wv.f, h |-> wv.g]
  /\ t' = t + 1
  /\ pc' = IF t + 1 < 64 THEN "round" ELSE "update"
  /\ UNCHANGED <<data, len, H, data_pos, N, i, M, W, msgblk_len, bitlen, md, held,
                 history>>

\* Lines 246-253, and the loop's i++.
Update ==
  /\ pc = "update"
  /\ H' = <<ADD(H[1], wv.a), ADD(H[2], wv.b), ADD(H[3], wv.c), ADD(H[4], wv.d),
            ADD(H[5], wv.e), ADD(H[6], wv.f), ADD(H[7], wv.g), ADD(H[8], wv.h)>>
  /\ i' = i + 1
  /\ pc' = "loop"
  /\ UNCHANGED <<data, len, data_pos, N, M, W, wv, T1, T2, msgblk_len, bitlen, t,
                 md, held, history>>

\* Lines 262-269.
Finalize ==
  /\ pc = "final"
  /\ H' = [j \in 1..8 |-> BYTESWAP(H[j])]
  /\ pc' = "store"
  /\ UNCHANGED <<data, len, data_pos, N, i, M, W, wv, T1, T2, msgblk_len, bitlen, t,
                 md, held, history>>

\* Lines 271-274, and the caller taking the result (main, lines 285-286).
Return ==
  /\ pc = "store"
  /\ md' = BytesOfHash(H)
  /\ held' = Append(held, [data |-> data, ptr |-> RetPtr, seen |-> md'])
  /\ pc' = "idle"
  /\ UNCHANGED <<data, len, locals, history>>

Step ==
  \/ BlockBegin
  \/ LoopExit
  \/ Copy
  \/ Pad
  \/ Swap
  \/ Length
  \/ SchedCopy
  \/ SchedExpand
  \/ InitWorking
  \/ Round
  \/ Update
  \/ Finalize
  \/ Return

Next == Call \/ Step
Spec == Init /\ [][Next]_vars

NextKAT == CallKAT \/ Step
SpecKAT == Init /\ [][NextKAT]_vars

(***************************************************************************)
(* The length field as a function of len alone, for every width of len:    *)
(* what line 197 computes, what lines 198-199 store, what line 274         *)
(* returns.  The blocks before the final one do not enter into it.         *)
(***************************************************************************)
InitLen ==
  /\ pc = "length_of"
  /\ len \in BigLens
  /\ Fresh

LengthOf ==
  /\ pc = "length_of"
  /\ bitlen' = BitLen(len)
  /\ M' = [M EXCEPT ![16] = Lo32(bitlen'), ![15] = Hi32(bitlen')]
  /\ pc' = "return_of"
  /\ UNCHANGED <<data, len, H, data_pos, N, i, W, wv, T1, T2, msgblk_len, t, md,
                 held, history>>

ReturnOf ==
  /\ pc = "return_of"
  /\ held' = Append(held, [data |-> data, ptr |-> RetPtr, seen |-> md])
  /\ pc' = "idle"
  /\ UNCHANGED <<data, len, locals, md, history>>

NextLen == LengthOf \/ ReturnOf
SpecLen == InitLen /\ [][NextLen]_vars


(***************************************************************************)
(* Reference values: the FIPS 180-4 SHA-256 digests of the messages of     *)
(* KATInputs, 32 bytes each with the first byte of H0 first, as produced   *)
(* by an independent implementation.  RefPattern[n + 1] is the digest of   *)
(* Msg(n).                                                                 *)
(***************************************************************************)
\* e3b0c44298fc1c149afbf4c8996fb92427ae41e4649b934ca495991b7852b855
RefEmpty ==
  <<227, 176, 196, 66, 152, 252, 28, 20, 154, 251, 244, 200, 153, 111, 185, 36, 39, 174, 65, 228, 100, 155, 147, 76, 164, 149, 153, 27, 120, 82, 184, 85>>
\* ba7816bf8f01cfea414140de5dae2223b00361a396177a9cb410ff61f20015ad
RefAbc ==
  <<186, 120, 22, 191, 143, 1, 207, 234, 65, 65, 64, 222, 93, 174, 34, 35, 176, 3, 97, 163, 150, 23, 122, 156, 180, 16, 255, 97, 242, 0, 21, 173>>
\* 41edece42d63e8d9bf515a9ba6932e1c20cbc9f5a5d134645adb5db1b9737ea3
RefMain ==
  <<65, 237, 236, 228, 45, 99, 232, 217, 191, 81, 90, 155, 166, 147, 46, 28, 32, 203, 201, 245, 165, 209, 52, 100, 90, 219, 93, 177, 185, 115, 126, 163>>
RefPattern ==
  << <<227, 176, 196, 66, 152, 252, 28, 20, 154, 251, 244, 200, 153, 111, 185, 36, 39, 174, 65, 228, 100, 155, 147, 76, 164, 149, 153, 27, 120, 82, 184, 85>>,
     <<118, 190, 139, 82, 141, 0, 117, 247, 170, 233, 141, 111, 165, 122, 109, 60, 131, 174, 72, 10, 132, 105, 230, 104, 215, 176, 175, 150, 137, 149, 172, 113>>,
     <<107, 176, 195, 189, 27, 254, 64, 215, 208, 67, 199, 175, 146, 192, 245, 112, 116, 52, 181, 89, 186, 237, 68, 108, 197, 148, 96, 162, 63, 21, 11, 44>>,
     <<233, 222, 10, 147, 136, 43, 147, 16, 3, 254, 111, 242, 51, 105, 29, 172, 22, 147, 215, 22, 119, 73, 0, 218, 38, 242, 227, 85, 84, 127, 251, 73>>,
     <<138, 115, 102, 254, 10, 195, 146, 5, 74, 75, 105, 70, 139, 239, 150, 199, 138, 162, 242, 113, 97, 12, 143, 10, 168, 103, 86, 160, 134, 3, 87, 187>>,
     <<128, 110, 248, 131, 121, 35, 106, 250, 238, 227, 77, 224, 95, 77, 6, 162, 238, 91, 151, 14, 100, 130, 39, 170, 53, 236, 56, 240, 208, 47, 86, 152>>,
     <<134, 198, 228, 208, 218, 198, 16, 228, 239, 4, 205, 197, 43, 111, 240, 180, 123, 249, 53, 80, 161, 9, 187, 52, 222, 163, 183, 186, 11, 124, 210, 31>>,
     <<98, 219, 208, 206, 223, 11, 50, 9, 96, 156, 95, 157, 125, 82, 173, 112, 232, 14, 207, 158, 181, 240, 112, 254, 248, 2, 133, 192, 198, 54, 22, 146>>,
     <<84, 38, 154, 77, 253, 92, 135, 78, 32, 86, 207, 195, 210, 175, 172, 19, 69, 247, 183, 4, 107, 41, 17, 175, 53, 143, 167, 26, 110, 126, 171, 222>>,
     <<100, 226, 220, 245, 59, 28, 208, 50, 61, 2, 228, 85, 2, 211, 236, 125, 0, 167, 127, 136, 11, 21, 125, 241, 210, 187, 187, 217, 209, 179, 214, 188>>,
     <<23, 126, 204, 68, 21, 73, 239, 100, 11, 17, 132, 219, 72, 21, 78, 60, 12, 245, 83, 219, 143, 63, 55, 32, 135, 71, 53, 19, 167, 134, 252, 86>>,
     <<136, 114, 24, 23, 136, 26, 200, 181, 11, 179, 19, 131, 20, 187, 11, 111, 237, 65, 167, 209, 170, 78, 118, 214, 47, 116, 210, 226, 27, 160, 3, 98>>,
     <<51, 144, 81, 198, 31, 2, 170, 159, 114, 94, 147, 27, 111, 0, 242, 109, 191, 9, 162, 85, 8, 177, 43, 54, 76, 227, 67, 185, 70, 122, 51, 175>>,
     <<170, 214, 58, 176, 145, 112, 20, 22, 28, 232, 167, 176, 151, 207, 167, 81, 247, 138, 112, 160, 179, 201, 238, 246, 171, 117, 207, 121, 219, 38, 23, 159>>,
     <<150, 93, 25, 88, 246, 3, 39, 191, 225, 156, 81, 16, 89, 202, 149, 121, 186, 7, 24, 13, 157, 181, 61, 38, 13, 68, 81, 62, 36, 38, 150, 167>>,
     <<252, 88, 114, 85, 20, 253, 84, 155, 76, 19, 44, 10, 120, 140, 190, 3, 55, 30, 167, 124, 25, 50, 138, 171, 245, 216, 189, 206, 62, 92, 62, 17>>,
     <<204, 98, 124, 13, 134, 218, 207, 1, 78, 59, 121, 245, 99, 73, 49, 7, 33, 91, 46, 78, 66, 247, 139, 9, 36, 214, 138, 145, 220, 194, 44, 115>>,
     <<226, 106, 210, 147, 176, 232, 86, 29, 56, 223, 87, 246, 235, 157, 68, 205, 113, 28, 75, 117, 79, 179, 244, 57, 119, 216, 1, 78, 144, 113, 182, 13>>,
     <<229, 214, 212, 122, 102, 92, 145, 134, 40, 37, 92, 116, 149, 71, 24, 86, 69, 65, 114, 240, 69, 193, 120, 156, 28, 226, 249, 125, 113, 59, 51, 202>>,
     <<75, 79, 197, 212, 105, 107, 97, 110, 175, 111, 97, 45, 10, 138, 200, 213, 118, 76, 79, 206, 37, 105, 55, 181, 56, 108, 77, 215, 246, 23, 81, 127>>,
     <<8, 202, 254, 103, 28, 9, 145, 232, 68, 133, 35, 96, 92, 201, 174, 183, 59, 250, 243, 5, 110, 4, 161, 245, 30, 170, 228, 154, 114, 16, 93, 90>>,
     <<211, 169, 16, 145, 184, 143, 149, 115, 106, 216, 29, 206, 118, 173, 21, 31, 34, 103, 187, 58, 126, 10, 84, 229, 230, 246, 166, 26, 11, 161, 38, 201>>,
     <<88, 251, 126, 161, 19, 142, 247, 213, 6, 22, 238, 22, 43, 233, 246, 226, 213, 177, 42, 114, 14, 91, 208, 134, 100, 72, 252, 54, 103, 244, 29, 126>>,
     <<17, 96, 8, 207, 26, 82, 182, 223, 233, 63, 198, 238, 107, 57, 114, 110, 58, 208, 154, 22, 153, 46, 161, 71, 73, 175, 88, 205, 119, 66, 118, 57>>,
     <<236, 82, 31, 104, 73, 7, 124, 26, 162, 144, 214, 173, 165, 242, 194, 61, 48, 162, 63, 122, 23, 172, 185, 159, 194, 14, 122, 164, 216, 185, 57, 45>>,
     <<242, 205, 18, 19, 152, 176, 56, 155, 187, 236, 214, 83, 80, 67, 65, 109, 111, 22, 115, 78, 215, 110, 22, 207, 184, 119, 115, 101, 96, 20, 226, 248>>,
     <<23, 25, 139, 176, 42, 90, 51, 189, 238, 23, 175, 3, 140, 26, 0, 14, 12, 203, 13, 36, 93, 255, 243, 106, 131, 121, 153, 152, 56, 79, 190, 217>>,
     <<113, 7, 99, 195, 166, 31, 254, 136, 165, 57, 71, 216, 27, 28, 168, 134, 144, 114, 44, 68, 3, 18, 128, 231, 145, 35, 205, 198, 161, 66, 32, 67>>,
     <<50, 52, 60, 143, 187, 223, 71, 163, 106, 70, 181, 212, 70, 20, 126, 214, 110, 78, 166, 93, 92, 158, 230, 239, 255, 84, 27, 41, 250, 78, 82, 140>>,
     <<139, 238, 192, 68, 250, 252, 173, 13, 213, 245, 171, 30, 97, 6, 126, 85, 26, 253, 119, 58, 193, 109, 20, 164, 93, 221, 170, 126, 170, 162, 33, 9>>,
     <<201, 13, 103, 198, 152, 203, 50, 57, 37, 221, 48, 94, 161, 187, 49, 99, 48, 21, 219, 216, 75, 251, 142, 98, 84, 152, 246, 201, 109, 76, 135, 65>>,
     <<52, 41, 254, 14, 142, 103, 30, 114, 215, 99, 19, 20, 158, 87, 213, 102, 224, 206, 42, 123, 7, 88, 25, 230, 175, 37, 131, 8, 193, 91, 125, 105>>,
     <<1, 174, 188, 29, 112, 107, 246, 158, 178, 30, 104, 22, 24, 52, 138, 173, 5, 77, 74, 215, 33, 244, 26, 145, 208, 15, 93, 226, 158, 250, 76, 233>>,
     <<139, 190, 146, 83, 89, 22, 75, 72, 187, 254, 238, 136, 200, 221, 168, 76, 73, 7, 47, 213, 83, 54, 37, 88, 121, 9, 231, 87, 10, 10, 19, 155>>,
     <<150, 225, 222, 220, 147, 210, 166, 168, 137, 214, 104, 18, 218, 164, 85, 91, 202, 49, 251, 91, 74, 156, 242, 128, 28, 40, 72, 147, 163, 127, 45, 218>>,
     <<87, 175, 31, 255, 177, 16, 90, 31, 68, 112, 43, 232, 72, 140, 127, 145, 137, 70, 241, 49, 235, 135, 52, 37, 71, 211, 105, 85, 220, 240, 83, 148>>,
     <<31, 29, 7, 174, 104, 185, 94, 92, 142, 187, 106, 7, 137, 110, 217, 92, 44, 25, 29, 22, 22, 62, 99, 250, 157, 31, 45, 76, 220, 71, 181, 135>>,
     <<57, 61, 192, 230, 246, 142, 227, 199, 56, 157, 94, 204, 113, 114, 48, 234, 44, 68, 30, 43, 105, 5, 224, 100, 131, 132, 255, 249, 48, 217, 220, 142>>,
     <<158, 2, 168, 127, 32, 39, 35, 210, 162, 47, 237, 51, 183, 240, 250, 182, 214, 76, 136, 189, 45, 158, 221, 222, 194, 225, 21, 70, 150, 74, 225, 230>>,
     <<80, 216, 44, 217, 52, 252, 202, 56, 232, 81, 87, 26, 115, 94, 124, 21, 0, 1, 23, 110, 0, 62, 212, 78, 234, 159, 121, 160, 3, 253, 252, 59>>,
     <<3, 35, 212, 24, 251, 22, 133, 10, 30, 73, 51, 225, 179, 169, 106, 109, 191, 216, 147, 195, 30, 167, 140, 157, 135, 205, 127, 130, 44, 164, 219, 37>>,
     <<98, 225, 131, 244, 82, 148, 42, 242, 146, 86, 239, 207, 145, 101, 225, 24, 201, 142, 81, 212, 238, 231, 4, 108, 179, 48, 255, 145, 49, 144, 123, 161>>,
     <<23, 245, 135, 187, 117, 2, 72, 130, 205, 210, 182, 93, 22, 165, 54, 68, 156, 134, 188, 198, 94, 220, 218, 217, 223, 112, 56, 165, 54, 51, 88, 153>>,
     <<95, 105, 20, 100, 76, 16, 237, 108, 54, 23, 144, 13, 1, 103, 129, 133, 84, 162, 70, 31, 39, 180, 0, 206, 68, 244, 38, 163, 215, 245, 112, 10>>,
     <<17, 61, 50, 147, 65, 206, 94, 20, 29, 99, 156, 184, 58, 34, 76, 120, 118, 90, 254, 94, 92, 140, 128, 223, 250, 87, 176, 72, 192, 202, 116, 70>>,
     <<222, 201, 83, 47, 195, 51, 183, 107, 172, 125, 84, 106, 235, 221, 95, 67, 183, 229, 149, 178, 246, 8, 118, 194, 78, 110, 58, 106, 21, 11, 132, 248>>,
     <<98, 18, 247, 148, 132, 99, 238, 193, 246, 224, 188, 28, 90, 195, 17, 100, 238, 101, 203, 147, 124, 233, 81, 88, 187, 33, 196, 175, 3, 82, 201, 5>>,
     <<19, 247, 169, 73, 253, 189, 100, 54, 142, 73, 98, 251, 16, 24, 106, 223, 96, 7, 102, 100, 146, 1, 47, 35, 105, 52, 252, 241, 139, 16, 211, 110>>,
     <<251, 230, 103, 76, 202, 92, 79, 243, 46, 95, 131, 57, 157, 98, 11, 236, 93, 59, 161, 157, 113, 160, 221, 204, 132, 0, 15, 180, 169, 21, 246, 12>>,
     <<90, 233, 244, 70, 232, 199, 7, 247, 187, 94, 219, 13, 150, 4, 72, 223, 202, 38, 31, 53, 214, 173, 196, 15, 166, 183, 1, 47, 205, 190, 155, 110>>,
     <<69, 61, 26, 10, 198, 0, 94, 56, 114, 55, 63, 244, 63, 183, 216, 226, 243, 110, 99, 180, 224, 248, 206, 245, 51, 218, 44, 22, 245, 27, 255, 39>>,
     <<199, 144, 23, 9, 69, 45, 250, 220, 136, 29, 110, 48, 131, 131, 241, 16, 47, 111, 163, 142, 198, 177, 78, 7, 199, 151, 203, 103, 9, 123, 19, 227>>,
     <<91, 61, 235, 75, 3, 47, 35, 11, 133, 69, 129, 112, 165, 18, 33, 84, 217, 202, 123, 127, 78, 78, 33, 196, 150, 203, 64, 29, 41, 82, 11, 16>>,
     <<169, 197, 29, 111, 252, 14, 176, 223, 192, 235, 71, 159, 177, 215, 77, 15, 88, 124, 34, 6, 146, 17, 52, 59, 237, 143, 243, 60, 3, 16, 56, 44>>,
     <<58, 71, 238, 193, 186, 10, 146, 164, 215, 1, 177, 56, 19, 68, 68, 108, 255, 220, 69, 116, 5, 39, 142, 165, 217, 42, 145, 89, 201, 189, 140, 26>>,
     <<183, 203, 74, 125, 118, 3, 108, 134, 88, 242, 142, 15, 104, 19, 78, 4, 180, 87, 20, 19, 65, 97, 148, 79, 141, 47, 151, 134, 184, 32, 106, 130>>,
     <<37, 64, 186, 249, 130, 141, 105, 79, 233, 106, 168, 44, 118, 126, 94, 92, 221, 238, 54, 195, 246, 111, 180, 226, 28, 114, 206, 211, 20, 82, 58, 197>>,
     <<187, 105, 134, 122, 163, 61, 109, 156, 39, 20, 146, 46, 180, 78, 67, 104, 25, 113, 207, 246, 208, 27, 116, 91, 188, 235, 215, 72, 217, 58, 249, 12>>,
     <<215, 95, 146, 200, 199, 237, 238, 83, 34, 243, 223, 247, 0, 167, 9, 17, 135, 209, 64, 26, 16, 139, 81, 90, 122, 61, 53, 218, 224, 2, 255, 104>>,
     <<98, 43, 188, 182, 150, 185, 60, 112, 138, 247, 49, 158, 56, 66, 125, 207, 12, 74, 13, 72, 199, 246, 191, 18, 18, 200, 158, 97, 74, 176, 31, 78>>,
     <<254, 56, 108, 246, 40, 69, 30, 237, 27, 175, 24, 152, 21, 134, 152, 159, 163, 4, 68, 51, 242, 235, 127, 47, 62, 233, 234, 50, 51, 95, 39, 7>>,
     <<217, 199, 99, 140, 160, 126, 236, 119, 211, 107, 209, 189, 30, 137, 33, 10, 31, 160, 153, 203, 87, 177, 10, 99, 131, 203, 9, 130, 173, 4, 114, 203>>,
     <<183, 214, 243, 224, 85, 103, 77, 228, 222, 211, 37, 169, 163, 28, 65, 137, 130, 186, 32, 67, 196, 110, 116, 236, 214, 38, 225, 253, 94, 156, 255, 243>>,
     <<27, 77, 201, 238, 162, 75, 135, 228, 94, 114, 88, 70, 11, 161, 146, 86, 190, 141, 18, 222, 103, 221, 100, 178, 144, 233, 145, 24, 28, 229, 138, 50>>,
     <<152, 253, 139, 203, 251, 106, 153, 150, 188, 195, 99, 129, 221, 94, 115, 80, 169, 15, 134, 24, 233, 216, 190, 142, 92, 32, 52, 140, 220, 186, 67, 203>>,
     <<21, 216, 91, 85, 207, 4, 124, 251, 188, 77, 135, 18, 85, 253, 77, 18, 219, 206, 111, 200, 115, 212, 219, 223, 173, 153, 134, 166, 218, 193, 252, 141>>,
     <<43, 210, 101, 154, 0, 252, 241, 179, 126, 115, 32, 15, 229, 248, 189, 60, 250, 91, 226, 232, 129, 117, 4, 47, 62, 20, 217, 216, 103, 237, 45, 78>>,
     <<9, 208, 133, 124, 20, 145, 22, 41, 227, 85, 164, 190, 24, 206, 73, 26, 79, 175, 101, 186, 90, 200, 124, 71, 52, 107, 16, 236, 3, 48, 243, 114>>,
     <<225, 191, 199, 9, 86, 21, 195, 22, 58, 247, 139, 141, 102, 33, 185, 115, 249, 199, 152, 94, 217, 174, 169, 215, 222, 73, 97, 58, 205, 122, 38, 255>>,
     <<241, 14, 254, 81, 109, 159, 113, 108, 58, 32, 131, 116, 2, 228, 109, 61, 163, 198, 148, 48, 18, 187, 211, 103, 237, 30, 56, 0, 164, 174, 17, 253>>,
     <<2, 206, 81, 216, 240, 208, 103, 179, 36, 126, 242, 131, 227, 211, 219, 228, 110, 94, 150, 145, 248, 1, 70, 234, 199, 168, 104, 178, 180, 104, 224, 93>>,
     <<52, 105, 16, 238, 87, 202, 252, 240, 253, 20, 96, 203, 153, 90, 249, 118, 36, 186, 7, 205, 148, 213, 54, 144, 243, 46, 185, 148, 126, 214, 94, 111>>,
     <<163, 45, 188, 99, 35, 220, 56, 221, 204, 21, 164, 97, 242, 208, 11, 250, 2, 192, 7, 99, 222, 162, 171, 127, 127, 83, 218, 232, 57, 151, 8, 169>>,
     <<13, 3, 163, 124, 86, 42, 235, 222, 226, 118, 114, 238, 143, 22, 110, 38, 236, 30, 108, 30, 183, 18, 172, 125, 212, 99, 128, 229, 221, 193, 30, 20>>,
     <<32, 243, 53, 204, 59, 255, 217, 131, 232, 42, 166, 20, 244, 225, 109, 73, 195, 61, 181, 53, 218, 74, 185, 246, 185, 213, 89, 241, 59, 141, 241, 97>>,
     <<215, 105, 223, 14, 45, 38, 15, 219, 21, 83, 7, 163, 165, 157, 204, 142, 121, 129, 130, 8, 4, 228, 117, 158, 255, 129, 140, 218, 164, 255, 19, 218>>,
     <<182, 29, 52, 26, 192, 31, 199, 2, 2, 96, 92, 160, 169, 25, 196, 19, 49, 125, 131, 186, 115, 215, 171, 148, 144, 30, 123, 142, 183, 83, 220, 94>>,
     <<162, 157, 71, 145, 209, 193, 10, 44, 62, 58, 233, 214, 124, 213, 207, 200, 223, 217, 212, 52, 4, 199, 216, 184, 167, 242, 84, 242, 233, 140, 4, 44>>,
     <<116, 126, 150, 167, 25, 210, 184, 10, 87, 118, 2, 124, 47, 74, 160, 149, 141, 198, 67, 94, 15, 184, 199, 104, 236, 217, 43, 2, 225, 224, 17, 34>>,
     <<133, 24, 50, 202, 108, 243, 250, 18, 59, 239, 230, 27, 205, 241, 166, 182, 154, 59, 112, 251, 51, 148, 245, 145, 40, 42, 0, 106, 15, 227, 22, 183>>,
     <<240, 217, 46, 126, 207, 214, 181, 0, 41, 128, 138, 170, 156, 187, 140, 122, 204, 131, 140, 0, 58, 26, 226, 8, 74, 146, 61, 134, 4, 69, 26, 83>>,
     <<86, 239, 157, 213, 178, 149, 121, 25, 63, 185, 147, 208, 25, 106, 241, 182, 31, 186, 127, 81, 111, 154, 213, 71, 149, 129, 0, 230, 76, 223, 145, 237>>,
     <<85, 182, 65, 160, 227, 251, 113, 171, 168, 108, 216, 159, 32, 6, 39, 96, 57, 92, 31, 183, 116, 131, 24, 16, 99, 137, 152, 156, 67, 203, 179, 7>>,
     <<89, 36, 89, 180, 7, 71, 252, 243, 247, 254, 50, 31, 62, 228, 211, 22, 82, 121, 14, 203, 208, 52, 143, 151, 207, 129, 58, 46, 62, 52, 255, 55>>,
     <<164, 80, 139, 87, 208, 200, 4, 30, 177, 244, 22, 45, 198, 152, 176, 123, 127, 231, 164, 210, 235, 82, 4, 84, 133, 62, 99, 160, 110, 31, 46, 132>>,
     <<66, 40, 98, 66, 253, 78, 155, 158, 103, 146, 11, 187, 5, 254, 22, 191, 254, 141, 239, 76, 202, 75, 229, 34, 8, 47, 26, 220, 97, 209, 172, 178>>,
     <<203, 190, 94, 244, 25, 220, 169, 227, 99, 142, 248, 78, 195, 247, 131, 39, 244, 91, 171, 239, 200, 128, 90, 186, 166, 3, 246, 188, 104, 47, 144, 209>>,
     <<83, 55, 98, 253, 95, 54, 85, 11, 175, 182, 172, 250, 177, 52, 179, 66, 103, 150, 83, 143, 246, 84, 76, 98, 99, 169, 110, 112, 130, 216, 21, 212>>,
     <<229, 64, 242, 179, 67, 212, 228, 228, 57, 79, 253, 52, 239, 193, 195, 135, 122, 208, 9, 88, 53, 240, 56, 159, 112, 58, 108, 88, 32, 208, 112, 145>>,
     <<236, 100, 41, 213, 181, 143, 205, 183, 120, 134, 99, 99, 141, 110, 228, 9, 119, 83, 249, 241, 200, 101, 149, 232, 9, 198, 223, 191, 211, 14, 140, 106>>,
     <<216, 71, 156, 148, 16, 198, 180, 0, 95, 248, 157, 13, 24, 134, 29, 70, 48, 30, 26, 144, 246, 250, 145, 32, 209, 172, 55, 44, 67, 196, 65, 175>>,
     <<106, 192, 30, 121, 236, 112, 158, 146, 113, 177, 184, 22, 238, 1, 196, 42, 127, 22, 127, 154, 131, 93, 109, 160, 230, 219, 112, 121, 249, 177, 234, 75>>,
     <<87, 194, 11, 253, 27, 162, 146, 101, 104, 22, 73, 141, 97, 80, 125, 66, 86, 237, 182, 211, 177, 40, 243, 187, 60, 234, 74, 47, 133, 235, 225, 3>>,
     <<249, 241, 206, 8, 249, 173, 52, 131, 0, 96, 210, 209, 20, 170, 63, 255, 101, 105, 158, 156, 181, 201, 72, 163, 242, 149, 14, 231, 57, 216, 69, 129>>,
     <<220, 208, 254, 48, 247, 6, 250, 152, 239, 199, 100, 44, 127, 130, 101, 148, 149, 125, 181, 52, 133, 67, 25, 122, 42, 193, 67, 172, 228, 123, 78, 118>>,
     <<174, 149, 232, 128, 143, 94, 26, 5, 211, 202, 109, 187, 134, 75, 241, 207, 70, 235, 152, 123, 56, 24, 198, 3, 137, 247, 59, 65, 99, 240, 76, 111>>,
     <<80, 198, 57, 233, 211, 46, 20, 120, 122, 251, 198, 121, 205, 109, 2, 201, 249, 32, 239, 11, 174, 177, 141, 199, 229, 1, 173, 214, 54, 192, 184, 84>>,
     <<102, 220, 255, 68, 113, 235, 145, 208, 228, 75, 40, 103, 75, 45, 184, 130, 175, 0, 152, 75, 115, 189, 227, 250, 198, 152, 0, 48, 31, 61, 102, 22>>,
     <<185, 19, 9, 191, 130, 55, 85, 249, 80, 98, 255, 91, 227, 222, 134, 187, 47, 186, 86, 39, 145, 182, 53, 42, 164, 189, 87, 169, 3, 70, 229, 247>>,
     <<3, 105, 215, 200, 17, 190, 149, 183, 40, 16, 229, 243, 206, 134, 150, 148, 65, 148, 8, 123, 123, 141, 50, 134, 129, 149, 181, 150, 242, 69, 69, 242>>,
     <<70, 163, 45, 36, 9, 221, 214, 193, 244, 103, 132, 78, 211, 49, 133, 155, 224, 8, 72, 211, 17, 100, 144, 188, 53, 242, 132, 3, 27, 19, 170, 26>>,
     <<215, 140, 97, 160, 6, 214, 162, 60, 14, 129, 2, 2, 32, 230, 208, 161, 146, 186, 60, 136, 232, 114, 216, 24, 252, 49, 242, 230, 153, 180, 76, 255>>,
     <<85, 185, 209, 147, 46, 203, 176, 83, 11, 145, 92, 69, 244, 174, 207, 197, 82, 136, 255, 191, 11, 138, 160, 1, 132, 137, 135, 204, 30, 32, 65, 253>>,
     <<18, 154, 199, 12, 126, 104, 74, 14, 226, 159, 84, 26, 38, 200, 198, 205, 159, 182, 73, 173, 237, 107, 99, 111, 252, 9, 36, 220, 16, 35, 49, 164>>,
     <<105, 130, 127, 198, 171, 4, 143, 24, 73, 97, 124, 4, 52, 233, 116, 103, 154, 149, 158, 48, 187, 173, 161, 76, 229, 17, 39, 34, 126, 162, 253, 138>>,
     <<49, 204, 94, 61, 117, 240, 30, 184, 8, 133, 114, 171, 177, 126, 120, 128, 250, 228, 58, 32, 87, 234, 136, 131, 41, 180, 255, 148, 163, 74, 188, 109>>,
     <<201, 41, 183, 105, 113, 11, 132, 160, 143, 76, 208, 45, 96, 84, 6, 146, 113, 238, 176, 116, 161, 196, 246, 19, 200, 160, 255, 216, 68, 252, 250, 219>>,
     <<60, 176, 70, 217, 178, 155, 80, 156, 235, 178, 107, 253, 164, 106, 24, 119, 222, 81, 46, 15, 113, 26, 154, 114, 163, 181, 233, 136, 89, 96, 244, 63>>,
     <<65, 78, 134, 222, 70, 105, 57, 190, 89, 196, 124, 87, 40, 63, 50, 96, 234, 119, 213, 33, 143, 221, 80, 25, 240, 92, 103, 140, 188, 228, 96, 234>>,
     <<253, 143, 8, 57, 220, 103, 41, 137, 162, 191, 227, 12, 95, 176, 200, 42, 123, 71, 167, 145, 206, 112, 53, 107, 81, 255, 27, 224, 16, 217, 140, 153>>,
     <<111, 5, 180, 104, 7, 227, 55, 205, 245, 106, 6, 90, 45, 71, 82, 177, 138, 105, 123, 138, 249, 156, 26, 161, 35, 20, 187, 107, 14, 195, 87, 94>>,
     <<166, 214, 2, 150, 198, 254, 64, 112, 56, 58, 148, 110, 209, 189, 178, 66, 48, 176, 207, 145, 88, 176, 38, 92, 148, 201, 224, 51, 211, 105, 47, 160>>,
     <<226, 66, 23, 236, 11, 131, 85, 100, 12, 68, 18, 102, 159, 32, 38, 70, 69, 175, 138, 17, 9, 192, 185, 169, 212, 16, 124, 116, 245, 139, 194, 165>>,
     <<124, 39, 10, 70, 26, 10, 44, 190, 73, 40, 219, 27, 52, 142, 243, 130, 156, 103, 114, 70, 22, 139, 159, 26, 130, 138, 236, 102, 96, 147, 36, 254>>,
     <<36, 209, 211, 129, 132, 212, 113, 192, 200, 95, 200, 57, 137, 196, 255, 174, 162, 236, 82, 91, 78, 171, 245, 231, 29, 254, 210, 92, 140, 170, 48, 105>>,
     <<22, 8, 158, 39, 240, 154, 220, 192, 28, 188, 77, 126, 247, 54, 132, 144, 171, 12, 16, 96, 8, 154, 142, 67, 221, 92, 28, 60, 200, 253, 7, 167>>,
     <<254, 181, 150, 168, 31, 45, 231, 109, 18, 222, 60, 3, 76, 48, 32, 174, 18, 135, 171, 121, 21, 121, 74, 53, 147, 54, 35, 158, 231, 87, 203, 101>>,
     <<131, 250, 110, 228, 159, 161, 133, 20, 236, 224, 70, 217, 84, 216, 250, 183, 123, 252, 160, 30, 201, 255, 202, 246, 211, 53, 60, 134, 135, 59, 169, 123>>,
     <<53, 25, 204, 231, 166, 132, 45, 49, 6, 189, 78, 36, 141, 144, 54, 70, 63, 181, 33, 213, 81, 201, 35, 122, 230, 207, 146, 169, 92, 130, 207, 110>>,
     <<235, 120, 127, 96, 57, 57, 198, 215, 114, 61, 28, 220, 177, 94, 216, 75, 235, 178, 124, 194, 180, 86, 52, 71, 99, 78, 145, 14, 254, 11, 0, 15>>,
     <<129, 61, 150, 151, 55, 40, 75, 153, 206, 40, 82, 186, 170, 138, 59, 120, 181, 120, 210, 17, 173, 87, 9, 22, 116, 70, 26, 46, 173, 226, 148, 242>>,
     <<121, 201, 207, 195, 184, 218, 42, 246, 161, 80, 187, 82, 9, 234, 190, 87, 116, 197, 17, 163, 237, 9, 5, 27, 174, 6, 200, 127, 135, 47, 233, 56>>,
     <<108, 149, 169, 243, 9, 201, 183, 233, 133, 205, 5, 253, 146, 11, 118, 228, 170, 125, 126, 10, 41, 223, 163, 126, 178, 251, 242, 11, 154, 171, 89, 86>>,
     <<120, 103, 123, 112, 207, 53, 58, 33, 212, 186, 228, 160, 13, 250, 230, 188, 21, 89, 101, 245, 173, 195, 75, 66, 90, 213, 217, 163, 70, 247, 159, 8>>,
     <<84, 28, 172, 28, 236, 46, 170, 80, 147, 111, 91, 12, 163, 124, 202, 172, 0, 120, 212, 222, 45, 135, 32, 91, 243, 203, 175, 250, 75, 4, 106, 161>>,
     <<40, 185, 153, 71, 43, 61, 65, 103, 236, 138, 188, 25, 74, 38, 109, 135, 99, 84, 117, 132, 117, 196, 0, 243, 37, 28, 114, 96, 38, 161, 229, 179>>,
     <<145, 58, 255, 231, 51, 65, 0, 223, 134, 139, 16, 165, 32, 220, 12, 114, 201, 249, 66, 4, 103, 192, 64, 189, 149, 116, 155, 1, 63, 20, 16, 250>>,
     <<171, 106, 176, 7, 54, 77, 226, 96, 149, 152, 46, 110, 17, 56, 61, 192, 250, 251, 218, 22, 111, 102, 109, 199, 83, 57, 88, 105, 63, 219, 100, 165>>,
     <<195, 255, 228, 166, 167, 224, 112, 47, 161, 32, 152, 70, 141, 85, 207, 161, 0, 121, 220, 75, 92, 19, 56, 43, 223, 148, 20, 124, 8, 52, 249, 57>>,
     <<18, 61, 226, 130, 200, 225, 87, 35, 243, 75, 94, 22, 254, 158, 56, 64, 216, 178, 110, 84, 117, 83, 77, 108, 174, 200, 45, 159, 55, 4, 199, 77>>,
     <<21, 57, 255, 127, 61, 40, 228, 87, 62, 105, 58, 74, 222, 58, 86, 248, 59, 157, 148, 174, 208, 177, 27, 46, 127, 110, 204, 155, 62, 250, 153, 182>>,
     <<141, 99, 232, 111, 240, 66, 0, 154, 223, 24, 180, 29, 188, 175, 221, 128, 28, 112, 51, 9, 173, 42, 152, 168, 233, 213, 240, 69, 249, 82, 231, 227>>,
     <<170, 208, 136, 7, 214, 149, 105, 107, 51, 79, 194, 12, 114, 79, 150, 167, 209, 131, 99, 19, 91, 200, 65, 45, 65, 118, 114, 233, 232, 203, 91, 246>>,
     <<66, 231, 47, 212, 184, 182, 92, 32, 47, 86, 49, 66, 194, 108, 61, 96, 47, 162, 208, 75, 192, 172, 55, 196, 48, 126, 244, 83, 141, 206, 224, 69>>,
     <<31, 6, 21, 155, 122, 130, 232, 2, 6, 127, 233, 116, 152, 178, 106, 38, 17, 91, 8, 8, 244, 171, 66, 40, 104, 173, 106, 65, 13, 242, 243, 184>>,
     <<166, 16, 180, 30, 24, 239, 29, 151, 144, 86, 22, 213, 52, 136, 146, 249, 50, 253, 169, 59, 97, 160, 111, 146, 74, 29, 34, 83, 179, 210, 183, 229>>,
     <<0, 177, 95, 5, 120, 238, 3, 207, 37, 31, 37, 73, 242, 219, 216, 110, 141, 119, 67, 7, 203, 234, 69, 109, 78, 250, 230, 175, 128, 50, 12, 53>>,
     <<243, 22, 217, 36, 42, 13, 126, 113, 231, 45, 64, 191, 63, 185, 101, 243, 66, 117, 221, 233, 201, 254, 212, 84, 237, 41, 90, 135, 83, 171, 242, 93>>,
     <<230, 145, 119, 34, 239, 72, 127, 143, 71, 18, 56, 48, 167, 13, 2, 13, 234, 222, 34, 138, 14, 203, 43, 33, 93, 35, 219, 98, 133, 10, 197, 207>>,
     <<51, 62, 95, 206, 211, 116, 33, 221, 238, 57, 44, 244, 200, 114, 18, 45, 71, 67, 191, 81, 103, 169, 102, 174, 222, 101, 41, 29, 84, 38, 252, 238>>,
     <<253, 215, 22, 158, 152, 234, 76, 91, 75, 100, 141, 139, 41, 152, 40, 106, 168, 33, 35, 15, 218, 132, 43, 250, 137, 84, 132, 155, 58, 12, 174, 118>> >>
Reference(d) ==
  IF d = Abc THEN RefAbc
  ELSE IF d = MainMsg THEN RefMain
  ELSE IF d = <<>> THEN RefEmpty
  ELSE RefPattern[Len(d) + 1]

(***************************************************************************)
(* The padded message as FIPS 180-4 reads it: byte p (from 0) of the       *)
(* concatenation of the blocks, each word taken most significant byte      *)
(* first.                                                                  *)
(***************************************************************************)
PaddedByte(p) == ByteLE(blocks[(p \div 64) + 1][((p % 64) \div 4) + 1], 3 - (p % 4))

\* The loop of the current call has been left.
Exited == pc \in {"final", "store"}

(***************************************************************************)
(* C1.  The 32 bytes every call returns are the FIPS 180-4 SHA-256 digest  *)
(* of its input, first byte of H0 first: for every length 0..MaxLen, for   *)
(* "abc" and for the 1000 bytes of main.                                   *)
(***************************************************************************)
C1_DigestIsFIPS ==
  \A k \in 1..Len(held) :
    /\ Len(held[k].seen) = 32
    /\ held[k].seen = Reference(held[k].data)

C1_Witness ==
  /\ pc = "idle"
  /\ Len(held) = 1
  /\ held[1].data = Abc
  /\ held[1].seen = RefAbc

(***************************************************************************)
(* C4.  The block loop runs exactly N iterations and is then left, where   *)
(* N = floor(len/64) + 1 + (1 if len%64 >= 56) and 64*N is the smallest    *)
(* multiple of 64 that is >= len + 9; len 0 and 55 give 1, len 56 and 64   *)
(* give 2.                                                                 *)
(***************************************************************************)
C4_Count(n) == (n \div 64) + 1 + (IF n % 64 >= 56 THEN 1 ELSE 0)

C4_Inv ==
  LET n == LenNat(len) IN
  /\ pc \notin {"idle", "ub"} =>
       /\ N = C4_Count(n)
       /\ 64 * N >= n + 9
       /\ 64 * (N - 1) < n + 9
       /\ Len(blocks) <= N
       /\ n \in {0, 55} => N = 1
       /\ n \in {56, 64} => N = 2
  /\ Exited => (Len(blocks) = N /\ i = N + 1)

\* The steps a call has left before it returns: 135 for each block still to
\* process (1 to enter the body, 4 to assemble, 16 + 48 to schedule, 1 + 64
\* to compress, 1 to update) and 3 to leave the loop, finalize and return.
C4_Left ==
  CASE pc = "loop" -> 135 * (N + 1 - i) + 3
    [] pc = "copy" -> 135 * (N - i) + 134 + 3
    [] pc = "pad" -> 135 * (N - i) + 133 + 3
    [] pc = "swap" -> 135 * (N - i) + 132 + 3
    [] pc = "length" -> 135 * (N - i) + 131 + 3
    [] pc \in {"sched_copy", "sched_expand"} -> 135 * (N - i) + (130 - t) + 3
    [] pc = "init_working" -> 135 * (N - i) + 66 + 3
    [] pc = "round" -> 135 * (N - i) + (65 - t) + 3
    [] pc = "update" -> 135 * (N - i) + 1 + 3
    [] pc = "final" -> 2
    [] pc = "store" -> 1
    [] OTHER -> 0

\* The program never stops in undefined behaviour, and each step inside
\* sha256 leaves one step less: the loop is left after exactly N iterations
\* and the call returns.
C4_BlockCount ==
  /\ [](C4_Inv /\ C4_Left >= 0 /\ pc # "ub")
  /\ [][pc # "idle" => C4_Left' = C4_Left - 1]_vars

C4_Witness ==
  /\ pc = "final"
  /\ LenNat(len) = 56
  /\ N = 2
  /\ Len(blocks) = 2

(***************************************************************************)
(* C5.  In one call exactly one 0x80 marker is written: at offset len%64   *)
(* of block floor(len/64) + 1, the byte right after the last input byte;   *)
(* every byte from there to the length field is zero.                      *)
(***************************************************************************)
C5_OneMarker ==
  LET n == LenNat(len) IN
  /\ Len(marks) <= 1
  /\ Exited =>
       /\ marks = << <<(n \div 64) + 1, n % 64>> >>
       /\ PaddedByte(n) = 128
       /\ \A p \in (n + 1)..(64 * N - 9) : PaddedByte(p) = 0

C5_Witness ==
  /\ pc = "final"
  /\ LenNat(len) = 64
  /\ marks = << <<2, 0>> >>
  /\ PaddedByte(64) = 128

(***************************************************************************)
(* C6.  The N blocks make 64*N bytes whose last 8 are the big-endian       *)
(* bit-length len*8 (word 14 of block N the high 32 bits, word 15 the low  *)
(* 32 bits), and no other block has words 14 and 15 overwritten.           *)
(***************************************************************************)
\* Byte j (0 the most significant) of the 64-bit big-endian value of 8 * n, n < 2^28.
C6_LengthByte(n, j) == IF j < 4 THEN 0 ELSE ((8 * n) \div Pow2(8 * (7 - j))) % 256

C6_LengthField ==
  LET n == LenNat(len) IN
  /\ \A k \in 1..Len(lenw) : lenw[k] = N
  /\ Exited =>
       /\ Len(blocks) = N
       /\ lenw = <<N>>
       /\ \A j \in 0..7 : PaddedByte(64 * N - 8 + j) = C6_LengthByte(n, j)
       /\ blocks[N][15] = <<0, 0>>
       /\ blocks[N][16] = <<(8 * n) \div 65536, (8 * n) % 65536>>

C6_Witness ==
  /\ pc = "final"
  /\ LenNat(len) = 120
  /\ N = 3
  /\ lenw = <<3>>
  /\ blocks[3][16] = <<0, 960>>

(***************************************************************************)
(* C8.  When the final block reaches the write of the length field its     *)
(* words 14 and 15 are zero: the copied bytes and the marker lie in bytes  *)
(* 0..55 of that block.                                                    *)
(***************************************************************************)
C8_LengthFieldFree ==
  (pc = "length" /\ i = N) =>
    /\ M[15] = <<0, 0>>
    /\ M[16] = <<0, 0>>
    /\ msgblk_len + Cardinality({k \in 1..Len(marks) : marks[k][1] = i}) <= 56

C8_Witness ==
  /\ pc = "length"
  /\ i = N
  /\ LenNat(len) = 55
  /\ msgblk_len = 55
  /\ marks = << <<1, 55>> >>

(***************************************************************************)
(* C10.  In the block loop 0 <= data_pos <= len, the copy length is        *)
(* min(len - data_pos, 64) and lies in 0..64, the copy reads only bytes of *)
(* the input, a marker is written at an offset <= 63, input byte k lands   *)
(* at offset k%64 of block floor(k/64) + 1, and data_pos = len when the    *)
(* loop is left.                                                           *)
(***************************************************************************)
C10_Bounds ==
  LET n == LenNat(len) IN
  /\ pc # "ub"
  /\ data_pos >= 0
  /\ data_pos <= n
  /\ pc \in {"pad", "swap", "length"} =>
       /\ msgblk_len \in 0..64
       /\ msgblk_len = MIN(n - (data_pos - msgblk_len), 64)
       /\ data_pos = MIN(64 * i, n)
  /\ \A k \in 1..Len(marks) : marks[k][2] <= 63
  /\ \A k \in 0..(64 * Len(blocks) - 1) : k < n => PaddedByte(k) = data[k + 1]
  /\ Exited => data_pos = n

C10_Witness ==
  /\ pc = "final"
  /\ data = MainMsg
  /\ data_pos = MsgLen
  /\ Len(blocks) = 16

(***************************************************************************)
(* C9.  Every schedule word, working variable, T1, T2 and hash word is in  *)
(* 0..2^32-1 in every reachable state; every addition of the schedule      *)
(* recurrence, of the rounds and of the state update yields the            *)
(* mathematical sum modulo 2^32; after block i the hash state is, word by  *)
(* word, (hash state before block i + working variables after round 64)    *)
(* mod 2^32; the blocks are applied in the order 1..N.                     *)
(***************************************************************************)
IsWord(x) == x \in Seq(Nat) /\ Len(x) = 2 /\ x[1] \in Half /\ x[2] \in Half

\* The sum of the words of ws modulo 2^32, computed on the whole sum: the
\* halves are added as naturals and reduced once.
RECURSIVE C9_Total(_, _)
C9_Total(ws, half) ==
  IF ws = <<>> THEN 0 ELSE Head(ws)[half] + C9_Total(Tail(ws), half)
C9_SumMod32(ws) ==
  LET lo == C9_Total(ws, 2)
      hi == C9_Total(ws, 1) + lo \div 65536
  IN <<hi % 65536, lo % 65536>>

C9_Range ==
  /\ \A k \in 1..Len(W) : IsWord(W[k])
  /\ \A j \in 1..8 : IsWord(H[j])
  /\ \A f \in {"a", "b", "c", "d", "e", "f", "g", "h"} : IsWord(wv[f])
  /\ IsWord(T1)
  /\ IsWord(T2)
  \* block i is being compressed: it is the i-th block assembled
  /\ pc \in {"sched_copy", "sched_expand", "init_working", "round", "update"} =>
       /\ Len(blocks) = i
       /\ i \in 1..N
       /\ blocks[i] = M
       /\ \A k \in 1..MIN(Len(W), 16) : W[k] = M[k]

C9_Sums ==
  /\ pc = "sched_expand" =>
       W'[t + 1] = C9_SumMod32(<<s1(W[t - 1]), W[t - 6], s0(W[t - 14]), W[t - 15]>>)
  /\ pc = "round" =>
       /\ T1' = C9_SumMod32(<<wv.h, e1(wv.e), CH(wv.e, wv.f, wv.g), K[t + 1], W[t + 1]>>)
       /\ T2' = C9_SumMod32(<<e0(wv.a), MAJ(wv.a, wv.b, wv.c)>>)
       /\ wv'.e = C9_SumMod32(<<wv.d, T1'>>)
       /\ wv'.a = C9_SumMod32(<<T1', T2'>>)
  /\ pc = "update" =>
       /\ \A j \in 1..8 :
            H'[j] = C9_SumMod32(<<H[j], <<wv.a, wv.b, wv.c, wv.d, wv.e, wv.f, wv.g, wv.h>>[j]>>)
       /\ i' = i + 1

C9_Arithmetic == []C9_Range /\ [][C9_Sums]_vars

\* The update of H[0] after the first block wrapped around 2^32.
C9_Witness ==
  /\ pc = "loop"
  /\ i = 2
  /\ H[1][1] < wv.a[1]
  /\ H[1] = C9_SumMod32(<<H0[1], wv.a>>)

(***************************************************************************)
(* C7.  Two calls given the same bytes return the same 32 bytes, whatever  *)
(* calls were made before or between them.                                 *)
(***************************************************************************)
C7_Deterministic ==
  \A j, k \in 1..Len(held) :
    held[j].data = held[k].data => held[j].seen = held[k].seen

C7_Witness ==
  /\ Len(held) = 3
  /\ held[1].data = Abc
  /\ held[2].data = Msg(56)
  /\ held[3].data = Abc
  /\ held[1].seen = held[3].seen
  /\ held[2].seen # held[1].seen

(***************************************************************************)
(* C3.  The digest a caller received from an earlier call keeps its value  *)
(* after every later call on a different input: what the caller reads      *)
(* through the pointer it was given is what it read when the call          *)
(* returned.                                                               *)
(***************************************************************************)
C3_EarlierDigestKept ==
  \A k \in 1..Len(held) : Deref(held[k].ptr) = held[k].seen

(***************************************************************************)
(* C2.  A len whose bit-length len*8 does not fit an unsigned 64-bit       *)
(* counter (len >= 2^61) is reported to the caller as an error: the call   *)
(* does not return a digest buffer built on a wrapped bit-length.          *)
(***************************************************************************)
\* len * 8 < 2^64
BitLenFits(l) == l[4] < 8192

C2_OverflowReported ==
  (pc = "idle" /\ Len(held) = 1 /\ ~BitLenFits(len)) => held[1].ptr # RetPtr

====
